---- MODULE Spec2Model ----
(***************************************************************************)
(* Knowledge-base ingestion and retrieval-augmented answering pipeline of  *)
(* the AI support bot: KnowledgeBaseHandler (knowledge_base_handler.py),   *)
(* the /chat endpoint with its message store (main.py, models.py) and the  *)
(* token accountant (token_utils.py).                                      *)
(*                                                                         *)
(* A text is a sequence of words; the word " " is whitespace.              *)
(***************************************************************************)
EXTENDS Integers, Sequences, FiniteSets, TLC

(* ------------------------------ bounds --------------------------------- *)
\* number of eligible (.txt/.md) files that can appear in knowledge_base/
NumFiles == 2
\* number of /chat requests served in one behaviour
MaxRequests == 1
\* number of process restarts in one behaviour
MaxRestarts == 1
\* number of request threads that can be inside the handler at once
NumThreads == 2

(* ------------------------- program constants --------------------------- *)
KNOWLEDGE_BASE_DIR == "knowledge_base"
\* search_kwargs={"k": 5}
RETRIEVER_K == 5
\* get_conversation_history(session_id, limit=10)
HISTORY_LIMIT == 10

\* Python's None where a text or a list is expected: no text and no list of
\* the model is the single word None
None == <<"None">>

(* ------------------------------ texts ---------------------------------- *)
SP == " "

RECURSIVE LStrip(_)
LStrip(t) == IF t # <<>> /\ Head(t) = SP THEN LStrip(Tail(t)) ELSE t

RECURSIVE RStrip(_)
RStrip(t) ==
    IF t # <<>> /\ t[Len(t)] = SP THEN RStrip(SubSeq(t, 1, Len(t) - 1)) ELSE t

\* str.strip()
Strip(t) == RStrip(LStrip(t))

\* encoding.encode(text): a word takes the blank before it into its token,
\* any other blank is a token of its own
Encode(t) ==
    LET keep(i) == t[i] # SP \/ i = Len(t) \/ t[i + 1] = SP
        RECURSIVE Build(_)
        Build(i) == IF i > Len(t) THEN <<>>
                    ELSE IF keep(i)
                         THEN <<IF i > 1 /\ t[i] # SP /\ t[i - 1] = SP
                                THEN <<SP, t[i]>> ELSE <<t[i]>>>> \o Build(i + 1)
                         ELSE Build(i + 1)
    IN Build(1)

count_tokens(text) == IF text = <<>> THEN 0 ELSE Len(Encode(text))

\* the one element of a one-element set
Only(S) == CHOOSE x \in S : TRUE

RECURSIVE Join(_, _)
\* sep.join(parts)
Join(parts, sep) ==
    IF parts = <<>> THEN <<>>
    ELSE IF Len(parts) = 1 THEN parts[1]
    ELSE parts[1] \o <<sep>> \o Join(Tail(parts), sep)

RECURSIVE Reverse(_)
Reverse(s) == IF s = <<>> THEN <<>> ELSE Reverse(Tail(s)) \o <<Head(s)>>

Take(s, n) == SubSeq(s, 1, IF n < Len(s) THEN n ELSE Len(s))

RECURSIVE SeqFilter(_, _)
SeqFilter(s, S) ==
    IF s = <<>> THEN <<>>
    ELSE (IF Head(s) \in S THEN <<Head(s)>> ELSE <<>>) \o SeqFilter(Tail(s), S)

(* --------------------------- the filesystem ---------------------------- *)
Files == 1..NumFiles

FileName(f) == "doc" \o ToString(f) \o ".txt"

\* os.path.join(KNOWLEDGE_BASE_DIR, f)
FilePath(f) == <<KNOWLEDGE_BASE_DIR, FileName(f)>>

\* os.path.basename(source_path)
Basename(path) == path[Len(path)]

\* number of pieces the text splitter cuts file f into (an empty file: none)
NumChunks(f) == f % 3

\* Document(page_content=..., metadata={"source": file_path}) per piece
ChunksOfFile(f) ==
    [i \in 1..NumChunks(f) |->
        [source |-> FilePath(f),
         page_content |-> <<FileName(f), SP, "piece" \o ToString(i)>>]]

\* load_document without its try/except: a read failure loses the batch
load_document_raises(f, unreadable) ==
    IF unreadable # {} THEN <<>> ELSE ChunksOfFile(f)

\* load_document: the chunks of the file, [] when reading it fails
load_document(f, unreadable) ==
    IF f \in unreadable THEN <<>> ELSE ChunksOfFile(f)

RECURSIVE SortedSeq(_)
\* the directory listing, in name order
SortedSeq(S) ==
    IF S = {} THEN <<>>
    ELSE LET m == CHOOSE x \in S : \A y \in S : x <= y
         IN <<m>> \o SortedSeq(S \ {m})

\* new_files = [f for f in files if f in self.processed_files] (filter lost)
new_files_unfiltered(files, processed) == SortedSeq(files)

\* new_files = [f for f in files if f not in self.processed_files]
new_files_of(files, processed) ==
    SortedSeq({f \in files : FilePath(f) \notin processed})

RECURSIVE all_chunks_of(_, _)
\* the loop of load_knowledge_base: all_chunks.extend(load_document(f))
all_chunks_of(newFiles, unreadable) ==
    IF newFiles = <<>> THEN <<>>
    ELSE load_document(Head(newFiles), unreadable)
            \o all_chunks_of(Tail(newFiles), unreadable)

(* ------------------------- load_knowledge_base ------------------------- *)
\* what the vector-store step of one call does:
\*   ok            add_documents / from_documents and persist succeed
\*   add_fails     the add raises before anything is written
\*   add_fails_dir the add raises after the client created its directory
\*   persist_fails persist raises: nothing of the add is durable
AddOutcomes == {"ok", "add_fails", "add_fails_dir", "persist_fails"}

\* processed_files after the loop: self.processed_files.add(file_path) runs
\* for every new file, before the vector store is touched
processed_after_loop(processed, newFiles) ==
    processed \cup {FilePath(newFiles[i]) : i \in 1..Len(newFiles)}

\* load_knowledge_base on handler h with the index (st, dne) on disk;
\* the result is the handler, the index and a record of the call
load_knowledge_base(h, st, dne, files, unreadable, outcome) ==
    LET nf == new_files_of(files, h.processed_files)
        chunks == all_chunks_of(nf, unreadable)
        call == [files |-> files, new_files |-> nf, unreadable |-> unreadable,
                 chunks |-> chunks, outcome |-> outcome]
    IN IF nf = <<>>
       THEN [h |-> h, store |-> st, dirNonEmpty |-> dne,
             call |-> [call EXCEPT !.outcome = "skip"]]
       ELSE [h |-> [processed_files |->
                        processed_after_loop(h.processed_files, nf),
                    documents |-> h.documents \o chunks,
                    vectorstore |-> IF outcome = "ok" THEN TRUE ELSE h.vectorstore],
             store |-> IF outcome = "ok" THEN st \o chunks ELSE st,
             dirNonEmpty |-> IF outcome \in {"ok", "add_fails_dir"} THEN TRUE ELSE dne,
             call |-> call]

NoCall == [files |-> {}, new_files |-> <<>>, unreadable |-> {},
           chunks |-> <<>>, outcome |-> "none"]

(* ------------------------- query_knowledge_base ------------------------ *)
RECURSIVE Perms(_)
\* the orders in which similarity search can rank a set of chunk texts
Perms(S) ==
    IF S = {} THEN {<<>>}
    ELSE UNION {{<<x>> \o p : p \in Perms(S \ {x})} : x \in S}

Range(s) == {s[i] : i \in 1..Len(s)}

RECURSIVE RankedBy(_, _)
\* the stored chunks in rank order: equal texts embed alike and rank together
RankedBy(order, st) ==
    IF order = <<>> THEN <<>>
    ELSE SeqFilter(st, {Head(order)}) \o RankedBy(Tail(order), st)

\* retriever.get_relevant_documents(query): the k nearest stored chunks
Retrievals(st) == {Take(RankedBy(o, st), RETRIEVER_K) : o \in Perms(Range(st))}

NO_INFO_ANSWER ==
    <<"I couldn't find any relevant information in my knowledge base for that question.">>

\* f"I encountered an error while searching the knowledge base: {str(e)}"
ErrorAnswer(e) ==
    <<"I encountered an error while searching the knowledge base:", SP, e>>

KB_SYSTEM ==
    <<"You are an AI assistant answering questions based on provided context.">>

\* the f-string prompt around the retrieved context and the query
GroundedPrompt(context, query) ==
    <<"Answer the following question based on the provided context. If the context doesn't contain relevant information, say so.",
      SP, "Context:", SP>> \o context \o <<SP, "Question:", SP>> \o query
        \o <<SP, "Answer:">>

RECURSIVE PageContents(_)
PageContents(docs) ==
    IF docs = <<>> THEN <<>>
    ELSE <<Head(docs).page_content>> \o PageContents(Tail(docs))

RECURSIVE ExtractSourcesAll(_, _)
\* the loop over docs without its `not in sources` test
ExtractSourcesAll(docs, sources) ==
    IF docs = <<>> THEN sources
    ELSE ExtractSourcesAll(Tail(docs),
            Append(sources, Basename(Head(docs).source)))

RECURSIVE ExtractSources(_, _)
\* the loop over docs: append the basename unless it is already listed
ExtractSources(docs, sources) ==
    IF docs = <<>> THEN sources
    ELSE LET name == Basename(Head(docs).source)
         IN ExtractSources(Tail(docs),
                IF name \in Range(sources) THEN sources
                ELSE Append(sources, name))

\* what the completion engine does with one call: it raises, or it answers.
\* A call is recorded with the temperature arguments it passes: {0} for
\* temperature=0, {} when the call names no temperature
Raises == [raises |-> TRUE, content |-> None]

Returns(content) == [raises |-> FALSE, content |-> content]

GroundedReplies ==
    {Raises, Returns(<<>>),
     Returns(<<"Refunds", SP, "within", SP, "30", SP, "days.">>)}

\* except Exception as e: return {"answer": f"... {str(e)}", "sources": []}
kb_exception(e) ==
    [raised |-> FALSE, answer |-> ErrorAnswer(e), sources |-> <<>>, error |-> e]

\* if not docs: return {"answer": "I couldn't find ...", "sources": []}
kb_no_docs ==
    [raised |-> FALSE, answer |-> NO_INFO_ANSWER, sources |-> <<>>, error |-> ""]

\* the grounded call with the query mixed in as a turn of its own
grounded_messages_with_turn(context, query) ==
    <<[role |-> "system", content |-> KB_SYSTEM],
      [role |-> "user", content |-> query],
      [role |-> "user", content |-> GroundedPrompt(context, query)]>>

\* messages = [{"role": "system", ...}, {"role": "user", "content": prompt}]
grounded_messages(context, query) ==
    <<[role |-> "system", content |-> KB_SYSTEM],
      [role |-> "user", content |-> GroundedPrompt(context, query)]>>

\* "Ensure the vectorstore is loaded": attach to chroma_db/ when it holds
\* something, else load the knowledge base first
ensure_vectorstore(h, st, dne, files, unreadable, outcome) ==
    IF h.vectorstore
    THEN [h |-> h, store |-> st, dirNonEmpty |-> dne, call |-> NoCall]
    ELSE IF dne
    THEN [h |-> [h EXCEPT !.vectorstore = TRUE], store |-> st,
          dirNonEmpty |-> dne, call |-> NoCall]
    ELSE load_knowledge_base(h, st, dne, files, unreadable, outcome)

\* query_knowledge_base(query) on handler h; inp holds what the outside
\* world does during the call: inp.unreadable and inp.outcome for a nested
\* load_knowledge_base, inp.retrieval for the similarity search (it raises
\* when the embedding service fails), inp.llm for the completion engine
query_knowledge_base(h, st, dne, files, query, inp) ==
    Only({
        LET base == [h |-> ev.h, store |-> ev.store,
                     dirNonEmpty |-> ev.dirNonEmpty, call |-> ev.call,
                     calls |-> <<>>, docs |-> <<>>]
            with(r, tag) == base @@ [result |-> r, tag |-> tag]
        IN IF ~ev.h.vectorstore
           THEN with(kb_exception("Failed to initialize vector store"), "error")
           ELSE IF inp.retrieval.raises
           THEN with(kb_exception("EmbeddingServiceError"), "error")
           ELSE IF inp.retrieval.content = <<>>
           THEN with(kb_no_docs, "no_docs")
           ELSE LET context == Join(PageContents(inp.retrieval.content), "\n\n")
                    call == [branch |-> "grounded",
                             messages |-> grounded_messages(context, query),
                             temperature |-> {0}, reply |-> inp.llm]
                    r == IF inp.llm.raises
                         THEN with(kb_exception("CompletionServiceError"), "error")
                         ELSE with([raised |-> FALSE, answer |-> inp.llm.content,
                                    sources |-> ExtractSources(inp.retrieval.content, <<>>),
                                    error |-> ""],
                                   "grounded")
                IN [r EXCEPT !.calls = <<call>>, !.docs = inp.retrieval.content]
        : ev \in {ensure_vectorstore(h, st, dne, files, inp.unreadable,
                                     inp.outcome)}})

(* ------------------------- the message store --------------------------- *)
Sessions == {"s1"}

\* Message(session_id, role, content, token_count, used_knowledge_base,
\*         sources=json.dumps(sources) if sources else None)
MessageRow(sid, role, content, tokens, usedKb, sources) ==
    [session |-> sid, role |-> role, content |-> content,
     token_count |-> tokens, used_knowledge_base |-> usedKb,
     sources |-> IF sources = <<>> THEN None ELSE sources]

\* save_message: the row is added and committed; when the database fails
\* the exception is logged, the transaction rolled back and None returned
save_message(rows, ok, row) == IF ok THEN Append(rows, row) ELSE rows

RECURSIVE RowsOf(_, _)
RowsOf(rows, sid) ==
    IF rows = <<>> THEN <<>>
    ELSE (IF Head(rows).session = sid THEN <<Head(rows)>> ELSE <<>>)
            \o RowsOf(Tail(rows), sid)

\* get_conversation_history: order_by(timestamp.desc()).limit(limit), then
\* reversed(); [] when there is no such session or the database fails
get_conversation_history(rows, ok, sid, limit) ==
    IF ~ok THEN <<>>
    ELSE LET newest == Take(Reverse(RowsOf(rows, sid)), limit)
             oldestFirst == Reverse(newest)
         IN [i \in 1..Len(oldestFirst) |->
                [role |-> oldestFirst[i].role, content |-> oldestFirst[i].content]]

(* ------------------------------- /chat --------------------------------- *)
\* the triple-quoted prompt: it starts and ends with a line break
SYSTEM_PROMPT ==
    <<SP, "You are a helpful, friendly customer support assistant.", SP,
      "Your job is to provide clear, concise, and accurate information to customer queries.", SP,
      "Be polite, professional, and empathetic in your responses.", SP,
      "Always prioritize information from the knowledge base when available.", SP,
      "If the knowledge base provides information relevant to the query, use that information in your response.", SP,
      "If you don't know the answer to a question and it's not in the knowledge base, be honest about it instead of making something up.", SP>>

PLEASE_ENTER == <<"Please enter a message.">>

\* f"An error occurred: {str(e)}"
ErrorReply(e) == <<"An error occurred:", SP, e>>

\* log_message: one line of token_logs.txt, and the token count
LogEntry(role, text) == [role |-> role, tokens |-> count_tokens(text)]

\* a response without the token_usage key
NoUsage == [input_tokens |-> 0, output_tokens |-> 0, total_tokens |-> 0]

\* token_usage with the retrieved context counted as input
token_usage_with_context(systemTokens, userTokens, outputTokens, context) ==
    [input_tokens |-> systemTokens + userTokens + count_tokens(context),
     output_tokens |-> outputTokens,
     total_tokens |-> systemTokens + userTokens + count_tokens(context)
                        + outputTokens]

\* the token_usage object of the response
token_usage(systemTokens, userTokens, outputTokens, context) ==
    [input_tokens |-> systemTokens + userTokens,
     output_tokens |-> outputTokens,
     total_tokens |-> systemTokens + userTokens + outputTokens]

\* what client.chat.completions.create does: it raises, or the message
\* content is None, or it is a text
UngroundedReplies ==
    {Raises, Returns(None), Returns(<<SP, "Happy", SP, "to", SP, "help.", SP>>)}

\* the test of kb_answer left out: the ungrounded call is always made
FalsyAlways(answer) == TRUE

\* if not kb_answer: an empty answer counts as no answer
Falsy(answer) == answer = None \/ answer = <<>>

\* if not user_input: the test without strip()
IsBlankNoStrip(user_input) == user_input = <<>>

\* if not user_input.strip()
IsBlank(user_input) == Strip(user_input) = <<>>

\* the /chat handler for a message that is not blank. st: the state it
\* runs in; inp: what the outside world does during the request
chat(st, sid, user_input, use_kb, inp) ==
    Only({
        LET log1 == Append(st.tokenLog, LogEntry("user", user_input))
            kb_answer == IF kb.result.raised THEN None ELSE kb.result.answer
            sources == IF kb.result.raised THEN <<>> ELSE kb.result.sources
            messages == <<[role |-> "system", content |-> SYSTEM_PROMPT]>>
                            \o history
                            \o <<[role |-> "user", content |-> user_input]>>
            ungrounded == Falsy(kb_answer)
            calls == IF ungrounded
                     THEN kb.calls \o <<[branch |-> "ungrounded",
                                         messages |-> messages,
                                         temperature |-> {},
                                         reply |-> inp.completion]>>
                     ELSE kb.calls
            common == [handler |-> kb.h, store |-> kb.store,
                       dirNonEmpty |-> kb.dirNonEmpty, load |-> kb.call,
                       trace |-> [calls |-> calls, kbTag |-> kb.tag,
                                  kbRaised |-> kb.result.raised,
                                  kbAnswer |-> kb.result.answer,
                                  kbSources |-> kb.result.sources,
                                  kbError |-> kb.result.error,
                                  docs |-> kb.docs]]
            failed(e) ==
                common @@
                [messages |-> rows1,
                 tokenLog |-> Append(log1, LogEntry("error",
                                <<"Error in chat endpoint:", SP, e>>)),
                 resp |-> [status |-> 500, reply |-> ErrorReply(e),
                           keys |-> {"reply"}, token_usage |-> NoUsage,
                           sources |-> <<>>]]
            answered(answer) ==
                common @@
                [messages |-> save_message(rows1, inp.saveAssistant,
                                MessageRow(sid, "assistant", answer,
                                    count_tokens(answer),
                                    use_kb /\ kb_answer # None, sources)),
                 tokenLog |-> Append(log1, LogEntry("assistant", answer)),
                 resp |-> [status |-> 200, reply |-> answer,
                           keys |-> {"reply", "token_usage"} \cup
                                (IF sources = <<>> THEN {} ELSE {"sources"}),
                           token_usage |-> token_usage(systemTokens, userTokens,
                                count_tokens(answer),
                                Join(PageContents(kb.docs), "\n\n")),
                           sources |-> sources]]
        IN IF ~ungrounded THEN answered(kb_answer)
           ELSE IF inp.completion.raises THEN failed("CompletionServiceError")
           ELSE IF inp.completion.content = None
           THEN failed("'NoneType' object has no attribute 'strip'")
           ELSE answered(Strip(inp.completion.content))
        : userTokens \in {count_tokens(user_input)},
          systemTokens \in {count_tokens(SYSTEM_PROMPT)},
          rows1 \in {save_message(st.messages, inp.saveUser,
                        MessageRow(sid, "user", user_input,
                                   count_tokens(user_input), FALSE, <<>>))},
          history \in {get_conversation_history(
                        save_message(st.messages, inp.saveUser,
                            MessageRow(sid, "user", user_input,
                                       count_tokens(user_input), FALSE, <<>>)),
                        inp.history, sid, HISTORY_LIMIT)},
          kb \in {IF use_kb
                  THEN query_knowledge_base(st.handler, st.store, st.dirNonEmpty,
                                            st.kbFiles, user_input, inp)
                  ELSE [h |-> st.handler, store |-> st.store,
                        dirNonEmpty |-> st.dirNonEmpty, call |-> NoCall,
                        calls |-> <<>>, docs |-> <<>>, tag |-> "unused",
                        result |-> [raised |-> FALSE, answer |-> None,
                                    sources |-> <<>>, error |-> ""]]}})

(* ----------------------------- FAQ matcher ----------------------------- *)
\* the curated question/answer pairs; keywords are one comma-separated text
FAQS ==
    <<[question |-> <<"How", SP, "do", SP, "I", SP, "reset", SP, "my", SP, "password">>,
       answer |-> <<"Use", SP, "the", SP, "reset", SP, "link.">>,
       keywords |-> <<"reset", ",", "password">>],
      [question |-> <<"Untagged">>,
       answer |-> <<"Never", SP, "matched.">>,
       keywords |-> <<>>],
      [question |-> <<"Can", SP, "I", SP, "get", SP, "a", SP, "refund">>,
       answer |-> <<"Refunds", SP, "take", SP, "30", SP, "days.">>,
       keywords |-> <<"refund", ",", "return", ",", "money">>]>>

FAQ_THRESHOLD_TENTHS == 7

\* lower-casing and stripping punctuation, word by word
NormalizeWord(w) ==
    CASE w = "Reset" -> "reset"
      [] w = "password?" -> "password"
      [] w = "Refund" -> "refund"
      [] OTHER -> w

QueryWords(query) == {NormalizeWord(query[i]) : i \in {j \in 1..Len(query) : query[j] # SP}}

KeywordSet(keywords) == Range(keywords) \ {","}

MaxOf(a, b) == IF a > b THEN a ELSE b

\* |query_words ∩ faq_keywords| / max(|query_words|, |faq_keywords|) as the
\* fraction <<numerator, denominator>>
FaqScore(query, faq) ==
    <<Cardinality(QueryWords(query) \cap KeywordSet(faq.keywords)),
      MaxOf(Cardinality(QueryWords(query)), Cardinality(KeywordSet(faq.keywords)))>>

RECURSIVE FaqScan(_, _, _, _)
\* the scan over the FAQs: best is the index of the best match so far (0:
\* none) and bestScore its score
FaqScan(query, i, best, bestScore) ==
    IF i > Len(FAQS) THEN best
    ELSE LET sc == FaqScore(query, FAQS[i])
             skip == KeywordSet(FAQS[i].keywords) = {}
             clears == 10 * sc[1] >= FAQ_THRESHOLD_TENTHS * sc[2]
             better == sc[1] * bestScore[2] > bestScore[1] * sc[2]
         IN IF ~skip /\ clears /\ better
            THEN FaqScan(query, i + 1, i, sc)
            ELSE FaqScan(query, i + 1, best, bestScore)

\* match(query, faqs, threshold=0.7): the index of the matched entry, 0 for null
FaqMatch(query) == IF QueryWords(query) = {} THEN 0 ELSE FaqScan(query, 1, 0, <<0, 1>>)

(* ------------------------------- state --------------------------------- *)
VARIABLES
    phase,          \* "boot": module start-up pending; "serving": requests
    kbFiles,        \* the eligible files now in knowledge_base/
    handler,        \* kb_handler: processed_files, documents, vectorstore
    store,          \* the chunks of the Chroma collection in chroma_db/
    dirNonEmpty,    \* os.listdir(CHROMA_PERSIST_DIR) is not empty
    messages,       \* the rows of the messages table, oldest first
    tokenLog,       \* the lines of token_logs.txt
    loaded,         \* load_knowledge_base has been called on this handler
    lastListing,    \* the directory listing the previous call saw
    lastLoad,       \* the load_knowledge_base call of the last step
    req,            \* the /chat request served by the last step
    resp,           \* its response
    trace,          \* what the request did: engine calls, retrieval, history
    before,         \* handler, index and tables as the last step found them
    requests,
    restarts,
    workers         \* per request thread: where it is in load_knowledge_base

vars == <<phase, kbFiles, handler, store, dirNonEmpty, messages, tokenLog,
          loaded, lastListing, lastLoad, req, resp, trace, before,
          requests, restarts, workers>>

NewHandler == [processed_files |-> {}, documents |-> <<>>, vectorstore |-> FALSE]

Snapshot == [handler |-> handler, store |-> store, listing |-> lastListing,
             loaded |-> loaded, messages |-> messages,
             tokenLog |-> tokenLog, dirNonEmpty |-> dirNonEmpty]

NoReq == [op |-> "none", session |-> "", message |-> <<>>,
          use_knowledge_base |-> FALSE]

NoResp == [status |-> 0, reply |-> <<>>, keys |-> {}, token_usage |-> NoUsage,
           sources |-> <<>>]

NoTrace == [calls |-> <<>>, kbTag |-> "unused", kbRaised |-> FALSE,
            kbAnswer |-> None, kbSources |-> <<>>, kbError |-> "",
            docs |-> <<>>]

\* a transcript left in the database by earlier runs: eleven turns of
\* session s1 around one turn of another session
PriorRows ==
    [i \in 1..12 |->
        IF i = 6
        THEN MessageRow("s0", "user", <<"other", SP, "session">>,
                        count_tokens(<<"other", SP, "session">>), FALSE, <<>>)
        ELSE MessageRow("s1", IF i % 2 = 1 THEN "user" ELSE "assistant",
                        <<"turn", SP, ToString(i)>>,
                        count_tokens(<<"turn", SP, ToString(i)>>), FALSE, <<>>)]

Threads == 1..NumThreads

IdleWorker == [pc |-> "idle", new_files |-> <<>>, all_chunks |-> <<>>]

\* request.json["message"]
UserInputs ==
    {<<>>, <<SP>>, <<"Reset", SP, "password?">>, <<"refund", SP, "policy">>}

Init ==
    /\ phase = "boot"
    /\ kbFiles \in SUBSET Files
    /\ handler = NewHandler
    /\ store = <<>>
    /\ dirNonEmpty = FALSE
    /\ messages \in {<<>>, PriorRows}
    /\ tokenLog = <<>>
    /\ loaded = FALSE
    /\ lastListing = {}
    /\ lastLoad = NoCall
    /\ req = NoReq
    /\ resp = NoResp
    /\ trace = NoTrace
    /\ before = [handler |-> NewHandler, store |-> <<>>, listing |-> {},
                 loaded |-> FALSE, messages |-> messages, tokenLog |-> <<>>,
                 dirNonEmpty |-> FALSE]
    /\ requests = 0
    /\ restarts = 0
    /\ workers = [t \in Threads |-> IdleWorker]

\* the inputs a load_knowledge_base call can meet: the files that cannot be
\* read and what the vector store does
LoadInputs(h, files) ==
    IF new_files_of(files, h.processed_files) = <<>>
    THEN {<<{}, "ok">>}
    ELSE (SUBSET Range(new_files_of(files, h.processed_files))) \X AddOutcomes

\* the similarity search during one request: it raises when the embedding
\* service fails, else it ranks the stored chunks
RetrievalInputs(use_kb, ev) ==
    IF use_kb /\ ev.h.vectorstore
    THEN {Raises} \cup {Returns(d) : d \in Retrievals(ev.store)}
    ELSE {Raises}

\* the completion engine is asked for a grounded answer only when documents
\* were retrieved
GroundedInputs(ret) ==
    IF ~ret.raises /\ ret.content # <<>> THEN GroundedReplies ELSE {Raises}

\* and for an ungrounded one only when there is no knowledge-base answer
UngroundedInputs(use_kb, llm) ==
    IF ~use_kb \/ (~llm.raises /\ llm.content = <<>>)
    THEN UngroundedReplies ELSE {Raises}

\* one call of kb_handler.load_knowledge_base()
LoadStep ==
    /\ \E li \in LoadInputs(handler, kbFiles) :
        \E r \in {load_knowledge_base(handler, store, dirNonEmpty, kbFiles,
                                      li[1], li[2])} :
           /\ handler' = r.h
           /\ store' = r.store
           /\ dirNonEmpty' = r.dirNonEmpty
           /\ lastLoad' = r.call
    /\ before' = Snapshot
    /\ loaded' = TRUE
    /\ lastListing' = kbFiles
    /\ req' = NoReq /\ resp' = NoResp /\ trace' = NoTrace
    /\ UNCHANGED <<kbFiles, messages, tokenLog, requests, restarts, workers>>

\* main.py start-up: kb_handler.load_knowledge_base()
Startup ==
    /\ phase = "boot"
    /\ phase' = "serving"
    /\ LoadStep

\* load_knowledge_base invoked on demand on the running handler
LoadKnowledgeBase ==
    /\ phase = "serving"
    /\ UNCHANGED phase
    /\ LoadStep

\* the questions put to the knowledge base
Queries == {<<"refund", SP, "policy">>}

\* kb_handler.query_knowledge_base(query)
QueryKnowledgeBase ==
    /\ phase = "serving"
    /\ before' = Snapshot
    /\ \E query \in Queries :
        /\ req' = [op |-> "query", session |-> "", message |-> query,
                   use_knowledge_base |-> TRUE]
        /\ \E li \in IF ~handler.vectorstore /\ ~dirNonEmpty
                     THEN LoadInputs(handler, kbFiles) ELSE {<<{}, "ok">>} :
           \E ret \in RetrievalInputs(TRUE,
                        ensure_vectorstore(handler, store, dirNonEmpty,
                                           kbFiles, li[1], li[2])) :
           \E llm \in GroundedInputs(ret) :
           \E r \in {query_knowledge_base(handler, store, dirNonEmpty, kbFiles,
                        query, [unreadable |-> li[1], outcome |-> li[2],
                                retrieval |-> ret, llm |-> llm])} :
              /\ handler' = r.h
              /\ store' = r.store
              /\ dirNonEmpty' = r.dirNonEmpty
              /\ lastLoad' = r.call
              /\ loaded' = (loaded \/ r.call.outcome # "none")
              /\ lastListing' = IF r.call.outcome # "none"
                                THEN kbFiles ELSE lastListing
              /\ trace' = [calls |-> r.calls, kbTag |-> r.tag,
                           kbRaised |-> r.result.raised,
                           kbAnswer |-> r.result.answer,
                           kbSources |-> r.result.sources,
                           kbError |-> r.result.error,
                           docs |-> r.docs]
    /\ resp' = NoResp
    /\ UNCHANGED <<phase, kbFiles, messages, tokenLog, requests, restarts,
                   workers>>

\* an operator drops a new document into knowledge_base/
AddFile ==
    /\ \E f \in Files \ kbFiles : kbFiles' = kbFiles \cup {f}
    /\ lastLoad' = NoCall
    /\ before' = Snapshot
    /\ req' = NoReq /\ resp' = NoResp /\ trace' = NoTrace
    /\ UNCHANGED <<phase, handler, store, dirNonEmpty, messages, tokenLog,
                   loaded, lastListing, requests, restarts, workers>>

\* the process is restarted: a new KnowledgeBaseHandler, chroma_db/ kept
Restart ==
    /\ phase = "serving"
    /\ restarts < MaxRestarts
    /\ restarts' = restarts + 1
    /\ handler' = NewHandler
    /\ phase' = "boot"
    /\ loaded' = FALSE
    /\ lastListing' = {}
    /\ lastLoad' = NoCall
    /\ before' = Snapshot
    /\ req' = NoReq /\ resp' = NoResp /\ trace' = NoTrace
    /\ UNCHANGED <<kbFiles, store, dirNonEmpty, messages, tokenLog, requests,
                   workers>>

\* the database during one request: it is reachable (every save and query
\* succeeds) or it is not (every one of them fails and is swallowed)
DbInputs == BOOLEAN

\* POST /chat
Chat ==
    /\ phase = "serving"
    /\ requests < MaxRequests
    /\ requests' = requests + 1
    /\ before' = Snapshot
    /\ \E sid \in Sessions, user_input \in UserInputs, use_kb \in BOOLEAN :
        /\ req' = [op |-> "chat", session |-> sid, message |-> user_input,
                   use_knowledge_base |-> use_kb]
        /\ IF IsBlank(user_input)
           THEN /\ resp' = [status |-> 200, reply |-> PLEASE_ENTER,
                            keys |-> {"reply"}, token_usage |-> NoUsage,
                            sources |-> <<>>]
                /\ trace' = NoTrace
                /\ lastLoad' = NoCall
                /\ UNCHANGED <<handler, store, dirNonEmpty, messages, tokenLog,
                               loaded, lastListing>>
           ELSE \E li \in IF use_kb /\ ~handler.vectorstore /\ ~dirNonEmpty
                          THEN LoadInputs(handler, kbFiles) ELSE {<<{}, "ok">>} :
                \E ret \in RetrievalInputs(use_kb,
                            ensure_vectorstore(handler, store, dirNonEmpty,
                                               kbFiles, li[1], li[2])) :
                \E llm \in GroundedInputs(ret) :
                \E completion \in UngroundedInputs(use_kb, llm) :
                \E db \in DbInputs :
                LET inp == [unreadable |-> li[1], outcome |-> li[2],
                            retrieval |-> ret, llm |-> llm,
                            completion |-> completion, saveUser |-> db,
                            history |-> db, saveAssistant |-> db]
                IN
                \E r \in {chat([handler |-> handler, store |-> store,
                               dirNonEmpty |-> dirNonEmpty, kbFiles |-> kbFiles,
                               messages |-> messages, tokenLog |-> tokenLog],
                              sid, user_input, use_kb, inp)} :
                LET loadedNow == r.load.outcome # "none"
                IN /\ handler' = r.handler
                   /\ store' = r.store
                   /\ dirNonEmpty' = r.dirNonEmpty
                   /\ messages' = r.messages
                   /\ tokenLog' = r.tokenLog
                   /\ resp' = r.resp
                   /\ trace' = r.trace
                   /\ lastLoad' = r.load
                   /\ loaded' = (loaded \/ loadedNow)
                   /\ lastListing' = IF loadedNow THEN kbFiles ELSE lastListing
    /\ UNCHANGED <<phase, kbFiles, restarts, workers>>

(* ------------- load_knowledge_base under concurrent requests ----------- *)
\* The server handles requests in threads over the one module-level
\* kb_handler; a request reaches load_knowledge_base through
\* query_knowledge_base while there is no vector store and chroma_db/ is
\* empty. The steps below are the statements of load_knowledge_base between
\* which another thread can run; the code takes no lock.
Ghosts == <<loaded, lastListing, lastLoad, req, resp, trace, before, requests,
            restarts, messages, tokenLog, phase>>

\* files = os.listdir(...); new_files = [f ... not in self.processed_files]
CList(t) ==
    /\ phase = "serving"
    /\ workers[t].pc = "idle"
    /\ ~handler.vectorstore /\ ~dirNonEmpty
    /\ LET nf == new_files_of(kbFiles, handler.processed_files)
       IN workers' = [workers EXCEPT ![t] =
                [pc |-> IF nf = <<>> THEN "done" ELSE "loop",
                 new_files |-> nf, all_chunks |-> <<>>]]
    /\ UNCHANGED <<kbFiles, handler, store, dirNonEmpty>>
    /\ UNCHANGED Ghosts

\* one turn of the loop: load_document, extend, processed_files.add (every
\* file is readable here; read failures are in the sequential steps)
CFile(t) ==
    /\ workers[t].pc = "loop"
    /\ LET f == Head(workers[t].new_files)
           rest == Tail(workers[t].new_files)
       IN /\ workers' = [workers EXCEPT ![t] =
                    [pc |-> IF rest = <<>> THEN "add" ELSE "loop",
                     new_files |-> rest,
                     all_chunks |-> workers[t].all_chunks
                                        \o load_document(f, {})]]
          /\ handler' = [handler EXCEPT !.processed_files =
                                processed_after_loop(@, <<f>>)]
    /\ UNCHANGED <<kbFiles, store, dirNonEmpty>>
    /\ UNCHANGED Ghosts

\* self.documents.extend(all_chunks); add_documents or from_documents
CAdd(t) ==
    /\ workers[t].pc = "add"
    /\ \E outcome \in {"ok", "add_fails"} :
        /\ store' = IF outcome = "ok" THEN store \o workers[t].all_chunks
                    ELSE store
        /\ dirNonEmpty' = IF outcome = "ok" THEN TRUE ELSE dirNonEmpty
        /\ workers' = [workers EXCEPT ![t].pc =
                            IF outcome = "ok" THEN "persist" ELSE "done"]
    /\ handler' = [handler EXCEPT !.documents = @ \o workers[t].all_chunks]
    /\ UNCHANGED kbFiles
    /\ UNCHANGED Ghosts

\* vectorstore.persist(); self.vectorstore = vectorstore
CPersist(t) ==
    /\ workers[t].pc = "persist"
    /\ handler' = [handler EXCEPT !.vectorstore = TRUE]
    /\ workers' = [workers EXCEPT ![t].pc = "done"]
    /\ UNCHANGED <<kbFiles, store, dirNonEmpty>>
    /\ UNCHANGED Ghosts

\* the call returns; the thread is free for the next request
CReturn(t) ==
    /\ workers[t].pc = "done"
    /\ workers' = [workers EXCEPT ![t] = IdleWorker]
    /\ UNCHANGED <<kbFiles, handler, store, dirNonEmpty>>
    /\ UNCHANGED Ghosts

Worker == \E t \in Threads :
            CList(t) \/ CFile(t) \/ CAdd(t) \/ CPersist(t) \/ CReturn(t)

InitConc == Init /\ messages = <<>>

NextConc == Startup \/ AddFile \/ Worker

SpecConc == InitConc /\ [][NextConc]_vars

\* the /chat endpoint over the knowledge base
Next == Startup \/ AddFile \/ Chat

Spec == Init /\ [][Next]_vars

\* the /chat endpoint in a session that has a stored transcript
InitChat == Init /\ messages = PriorRows

SpecChat == InitChat /\ [][Next]_vars

\* the life of KnowledgeBaseHandler instances over one chroma_db/
InitKB == Init /\ messages = <<>>

NextKB == Startup \/ LoadKnowledgeBase \/ QueryKnowledgeBase \/ AddFile \/ Restart

SpecKB == InitKB /\ [][NextKB]_vars

(* ======================= the claims, under SpecKB ====================== *)
FailedOutcomes == {"add_fails", "add_fails_dir", "persist_fails"}

NewFilesOfLastLoad == Range(lastLoad.new_files)

\* C1: when the vector-store add (add_documents / from_documents / persist)
\* of a load_knowledge_base call fails, no file of that batch is in
\* processed_files afterwards.
C1_MarkedOnlyAfterAdd ==
    lastLoad.outcome \in FailedOutcomes =>
        \A f \in NewFilesOfLastLoad : FilePath(f) \notin handler.processed_files

\* C2: a load_knowledge_base call on a handler that was loaded before, with
\* the directory listing unchanged since that call, finds no new file and
\* grows neither the vector store nor self.documents.
C2_SecondLoadAddsNothing ==
    (lastLoad.outcome # "none" /\ before.loaded /\ lastLoad.files = before.listing)
        => /\ lastLoad.new_files = <<>>
           /\ store = before.store
           /\ handler.documents = before.handler.documents

\* the second call met files that the first call had put into the index
C2_Witness ==
    /\ lastLoad.outcome # "none" /\ before.loaded
    /\ lastLoad.files = before.listing
    /\ \E f \in lastLoad.files :
        NumChunks(f) > 0 /\ ChunksOfFile(f)[1] \in Range(store)

\* the chunks the last load_knowledge_base call appended to the index
AddedByLastLoad == SubSeq(store, Len(before.store) + 1, Len(store))

\* C3: when a load_knowledge_base call meets unreadable files and its add
\* succeeds, the index keeps what it held and gains every chunk of every
\* readable new file, and nothing of an unreadable one.
C3_ReadFailureSkipsOnlyThatFile ==
    lastLoad.outcome = "ok" =>
        /\ SubSeq(store, 1, Len(before.store)) = before.store
        /\ \A f \in NewFilesOfLastLoad \ lastLoad.unreadable :
            \A i \in 1..NumChunks(f) : ChunksOfFile(f)[i] \in Range(AddedByLastLoad)
        /\ \A c \in Range(AddedByLastLoad) :
            \E f \in NewFilesOfLastLoad \ lastLoad.unreadable : c.source = FilePath(f)

\* one file of the batch could not be read and another one was added
C3_Witness ==
    /\ lastLoad.outcome = "ok"
    /\ lastLoad.unreadable # {}
    /\ \E f \in NewFilesOfLastLoad \ lastLoad.unreadable :
        NumChunks(f) > 0 /\ ChunksOfFile(f)[1] \in Range(AddedByLastLoad)

\* C4: a knowledge-base query that retrieves zero documents from the index
\* returns a null answer and an empty sources list, and does not raise.
C4_EmptyIndexNullAnswer ==
    (req.op = "query" /\ trace.kbTag = "no_docs") =>
        /\ ~trace.kbRaised
        /\ trace.kbAnswer = None
        /\ trace.kbSources = <<>>

\* the source identifiers that have chunks in the index
IndexedSources == {store[i].source : i \in 1..Len(store)}

\* C15: every source with chunks in the index is in processed_files of the
\* handler attached to it, also when an earlier instance persisted the
\* index, and so a load_knowledge_base call adds no chunk that the index
\* already holds.
C15_IndexedSourcesProcessed ==
    /\ handler.vectorstore =>
            \A src \in IndexedSources : src \in handler.processed_files
    /\ lastLoad.outcome = "ok" =>
            \A c \in Range(AddedByLastLoad) : c \notin Range(before.store)

\* the display names of the retrieved chunks
RetrievedNames == {Basename(trace.docs[i].source) : i \in 1..Len(trace.docs)}

\* the rank of the first retrieved chunk with that display name
FirstRank(name) ==
    CHOOSE i \in 1..Len(trace.docs) :
        /\ Basename(trace.docs[i].source) = name
        /\ \A j \in 1..(i - 1) : Basename(trace.docs[j].source) # name

\* C12: the sources of a grounded answer are the display names of the
\* retrieved chunks, each exactly once, in the order of their first
\* occurrence in similarity rank.
C12_SourcesDedupRankOrder ==
    (req.op = "query" /\ trace.kbTag = "grounded") =>
        /\ Range(trace.kbSources) = RetrievedNames
        /\ \A i, j \in 1..Len(trace.kbSources) :
                i # j => trace.kbSources[i] # trace.kbSources[j]
        /\ \A i, j \in 1..Len(trace.kbSources) :
                i < j => FirstRank(trace.kbSources[i]) < FirstRank(trace.kbSources[j])

\* two chunks of one file were retrieved around a chunk of another file
C12_Witness ==
    /\ req.op = "query" /\ trace.kbTag = "grounded"
    /\ Len(trace.docs) >= 3
    /\ trace.docs[1].source = trace.docs[3].source
    /\ trace.docs[1].source # trace.docs[2].source
    /\ Len(trace.kbSources) = 2

(* ======================== the claims, under Spec ======================= *)
NonBlankChat == req.op = "chat" /\ Strip(req.message) # <<>>

UngroundedCalls == {i \in 1..Len(trace.calls) : trace.calls[i].branch = "ungrounded"}

\* C5: a chat request with use_knowledge_base whose retrieval yields no
\* grounding (zero documents, or a failed knowledge-base query) invokes the
\* completion engine with the system prompt, the history and the query, and
\* replies with its output.
C5_FallsBackUngrounded ==
    (NonBlankChat /\ req.use_knowledge_base /\ trace.kbTag \in {"no_docs", "error"})
        => \E i \in UngroundedCalls :
            LET c == trace.calls[i]
            IN /\ c.messages[1] = [role |-> "system", content |-> SYSTEM_PROMPT]
               /\ c.messages[Len(c.messages)] =
                    [role |-> "user", content |-> req.message]
               /\ (~c.reply.raises /\ c.reply.content # None)
                    => resp.reply = Strip(c.reply.content)

ServiceErrors == {"EmbeddingServiceError", "CompletionServiceError"}

\* C6: when the embedding service or the completion engine fails inside
\* query_knowledge_base, the failure leaves it as an exception; it is never
\* returned as an answer.
C6_ServiceFailurePropagates ==
    (req.op = "chat" /\ trace.kbError \in ServiceErrors) =>
        /\ trace.kbRaised
        /\ resp.reply # trace.kbAnswer

\* the turns of the request's session stored before the request, as the
\* engine is to see them: the most recent `limit`, oldest first
PriorTurns(limit) ==
    LET rows == RowsOf(before.messages, req.session)
        n == Len(rows)
        from == IF n > limit THEN n - limit + 1 ELSE 1
    IN [i \in 1..(n - from + 1) |->
            [role |-> rows[from + i - 1].role,
             content |-> rows[from + i - 1].content]]

\* C7: every ungrounded completion call carries the system instruction, then
\* the most recent HISTORY_LIMIT prior turns of the session oldest first (or
\* none, when the history cannot be read), then the current query, once.
C7_UngroundedMessages ==
    NonBlankChat =>
        \A i \in UngroundedCalls :
            LET m == trace.calls[i].messages
                first == <<[role |-> "system", content |-> SYSTEM_PROMPT]>>
                last == <<[role |-> "user", content |-> req.message]>>
            IN \/ m = first \o PriorTurns(HISTORY_LIMIT) \o last
               \/ m = first \o last

\* the three counts of a response, from the texts that crossed the boundary
UsageReported ==
    /\ "token_usage" \in resp.keys
    /\ resp.token_usage.input_tokens =
            count_tokens(SYSTEM_PROMPT) + count_tokens(req.message)
    /\ resp.token_usage.output_tokens = count_tokens(resp.reply)
    /\ resp.token_usage.total_tokens =
            resp.token_usage.input_tokens + resp.token_usage.output_tokens

\* C8 as stated: every chat request reports input_tokens = count(system
\* prompt) + count(user input), output_tokens = count(final answer) and
\* total_tokens = their sum.
C8_EveryRequestReportsUsage == req.op = "chat" => UsageReported

\* C8: a chat request with a non-blank message that is answered (status
\* 200) reports the three counts, on the grounded and on the ungrounded
\* path, with nothing counted for the retrieved context or the history; a
\* blank message and an error response (status 500) carry no token_usage.
C8_TokenUsage ==
    req.op = "chat" =>
        IF NonBlankChat /\ resp.status = 200
        THEN UsageReported
        ELSE "token_usage" \notin resp.keys

\* a grounded answer over retrieved context, after a transcript of prior turns
C8_Witness ==
    /\ req.op = "chat" /\ "token_usage" \in resp.keys
    /\ trace.kbTag = "grounded" /\ trace.docs # <<>>
    /\ resp.reply = trace.kbAnswer
    /\ before.messages # <<>>
    /\ resp.token_usage.output_tokens > 0

\* C13: every invocation of the completion engine by a chat request, grounded
\* or ungrounded, is made with temperature 0.
C13_TemperatureZero ==
    req.op = "chat" =>
        \A i \in 1..Len(trace.calls) : trace.calls[i].temperature = {0}

\* C10: a chat request whose message matches a curated FAQ is answered with
\* that FAQ's answer, and the completion engine is not invoked for it.
C10_FaqFastPath ==
    (req.op = "chat" /\ FaqMatch(req.message) # 0) =>
        /\ trace.calls = <<>>
        /\ resp.reply = FAQS[FaqMatch(req.message)].answer

(* ====================== the claims, under SpecConc ===================== *)
\* a thread is inside the index's critical section from its add to the end
\* of its persist
InCriticalSection(t) == workers[t].pc = "persist"

Copies(c) == Cardinality({i \in 1..Len(store) : store[i] = c})

\* C9: concurrent load_knowledge_base executions are serialized on the
\* index: no two threads are between their add and the end of their persist
\* at once, and no chunk is added to the index twice.
C9_IndexMutationSerialized ==
    /\ \A t1, t2 \in Threads :
        (InCriticalSection(t1) /\ InCriticalSection(t2)) => t1 = t2
    /\ \A c \in Range(store) : Copies(c) = 1

(* ====================== the claims, under SpecChat ===================== *)
GroundedCalls == {i \in 1..Len(trace.calls) : trace.calls[i].branch = "grounded"}

\* C14: a grounded completion call carries exactly two messages, the fixed
\* system role and one user message with instruction, retrieved context and
\* question and nothing else, whatever the transcript of the session holds.
C14_GroundedCallTwoMessages ==
    req.op = "chat" =>
        \A i \in GroundedCalls :
            LET m == trace.calls[i].messages
            IN /\ Len(m) = 2
               /\ m[1] = [role |-> "system", content |-> KB_SYSTEM]
               /\ m[2].role = "user"
               /\ m[2].content =
                    GroundedPrompt(Join(PageContents(trace.docs), "\n\n"),
                                   req.message)

\* a grounded call in a session whose transcript was readable
C14_Witness ==
    /\ req.op = "chat" /\ GroundedCalls # {}
    /\ RowsOf(before.messages, req.session) # <<>>
    /\ Len(messages) > Len(before.messages)
    /\ trace.docs # <<>>

\* C16 as stated: a chat request with a non-blank message invokes the
\* completion engine at most once.
C16_AtMostOneEngineCall == NonBlankChat => Len(trace.calls) <= 1

\* C16: a chat request with a non-blank message makes at most one grounded
\* and at most one ungrounded call, the grounded one first, and makes both
\* only when the grounded completion returned an empty answer.
C16_EngineCalls ==
    NonBlankChat =>
        /\ Cardinality(GroundedCalls) <= 1
        /\ Cardinality(UngroundedCalls) <= 1
        /\ \A i \in GroundedCalls : \A j \in UngroundedCalls :
            /\ i < j
            /\ ~trace.calls[i].reply.raises
            /\ trace.calls[i].reply.content = <<>>

\* the grounded completion was empty and the ungrounded call followed
C16_Witness ==
    /\ NonBlankChat
    /\ GroundedCalls # {} /\ UngroundedCalls # {}
    /\ resp.status = 200

BlankChat ==
    req.op = "chat" /\ \A i \in 1..Len(req.message) : req.message[i] = SP

\* C17: a chat request whose message is empty or only whitespace is answered
\* "Please enter a message." and changes nothing: no row is saved, nothing
\* is counted or logged, the knowledge base and the engine are not invoked.
C17_BlankMessageNoEffect ==
    BlankChat =>
        /\ resp.status = 200 /\ resp.reply = PLEASE_ENTER
        /\ resp.keys = {"reply"}
        /\ messages = before.messages
        /\ tokenLog = before.tokenLog
        /\ handler = before.handler
        /\ store = before.store /\ dirNonEmpty = before.dirNonEmpty
        /\ lastLoad = NoCall
        /\ trace = NoTrace

\* a whitespace-only message in a session with a stored transcript
C17_Witness ==
    /\ BlankChat /\ req.message # <<>>
    /\ RowsOf(before.messages, req.session) # <<>>
    /\ resp.reply = PLEASE_ENTER

====
